---- MODULE Spec2Model ----
(***************************************************************************)
(* Model of MyFormComponent (src/app/components/my-form/                   *)
(* my-form.component.ts): the undo/redo history of a reactive form.        *)
(*                                                                         *)
(* A form value (the object getRawValue() returns, one value per control)  *)
(* is abstracted to a small integer; the value of the freshly built        *)
(* FormGroup of initializeForm() is Baseline.  JavaScript's `undefined`    *)
(* (the result of indexing an array outside 0..length-1) is Undefined.     *)
(* FormGroup.setValue(undefined) throws before it changes anything, so the *)
(* form keeps its value and no valueChanges event is emitted.              *)
(* FormGroup.setValue(v) with a full value emits valueChanges exactly once *)
(* and synchronously, also when v equals the present value.                *)
(***************************************************************************)
EXTENDS Integers, Sequences, FiniteSets, TLC

\* ---- bounds of the model ------------------------------------------------
NumValues == 2
MaxOps == 8

\* ---- values -------------------------------------------------------------
Baseline == 0
Undefined == -1
Values == 0..NumValues

VARIABLES
  formStateHistory,     \* IFormData[]: sequence of form values (index 0 is element 1)
  currentHistoryIndex,  \* number
  undoRedoCounter,      \* number
  isLastRedoAction,     \* boolean
  form,                 \* the raw value of this.form
  subscribed,           \* this.form is the FormGroup ngOnInit subscribed to
  calls,                \* number of onInputChange() invocations so far
  log                   \* the calls made so far, with what each applied

vars == <<formStateHistory, currentHistoryIndex, undoRedoCounter,
          isLastRedoAction, form, subscribed, calls, log>>

\* The fields of the component and their types (lines 39-63).
TypeOK ==
  /\ formStateHistory \in Seq(Values)
  /\ currentHistoryIndex \in Int
  /\ undoRedoCounter \in Int
  /\ isLastRedoAction \in BOOLEAN
  /\ form \in Values
  /\ subscribed \in BOOLEAN
  /\ calls \in Nat

\* The component's fields as one record, so that a handler and the handlers
\* it calls synchronously compose as functions.
this ==
  [formStateHistory |-> formStateHistory,
   currentHistoryIndex |-> currentHistoryIndex,
   undoRedoCounter |-> undoRedoCounter,
   isLastRedoAction |-> isLastRedoAction,
   form |-> form,
   subscribed |-> subscribed,
   calls |-> calls]

\* formStateHistory[i] in JavaScript: undefined outside 0..length-1.
At(h, i) ==
  IF i >= 0 /\ i < Len(h) THEN h[i + 1] ELSE Undefined

\* Array.prototype.push
push(h, v) ==
  Append(h, v)

\* pop that removes the first element (Array.prototype.shift).
popShift(h) ==
  IF Len(h) = 0 THEN h ELSE Tail(h)

\* Array.prototype.pop: removes the last element; no effect on an empty array.
pop(h) ==
  IF Len(h) = 0 THEN h ELSE SubSeq(h, 1, Len(h) - 1)

\* initializeForm(): this.form becomes a new FormGroup holding the initial
\* values.  The subscription made in ngOnInit stays on the old FormGroup, so
\* the new one has no subscriber.
initializeForm(c) ==
  [c EXCEPT !.form = Baseline, !.subscribed = FALSE]

\* recordPush with the index left where it was.
recordPushNoIncrement(c) ==
  IF c.undoRedoCounter <= 0
    THEN [c EXCEPT !.formStateHistory = push(@, c.form)]
    ELSE c

\* recordPush that also records while one step into the past.
recordPushWhileUndone(c) ==
  IF c.undoRedoCounter <= 1
    THEN [c EXCEPT !.formStateHistory = push(@, c.form),
                   !.currentHistoryIndex = @ + 1]
    ELSE c

\* recordPush that advances the index without pushing when the form value is
\* the last entry already.
recordPushSkipDuplicate(c) ==
  IF c.undoRedoCounter <= 0
    THEN IF At(c.formStateHistory, c.currentHistoryIndex) = c.form
           THEN [c EXCEPT !.currentHistoryIndex = @ + 1]
           ELSE [c EXCEPT !.formStateHistory = push(@, c.form),
                          !.currentHistoryIndex = @ + 1]
    ELSE c

\* First if of onInputChange: push the current state, advance the index.
recordPush(c) ==
  IF c.undoRedoCounter <= 0
    THEN [c EXCEPT !.formStateHistory = push(@, c.form),
                   !.currentHistoryIndex = @ + 1]
    ELSE c

\* recordDiscard that clears the flag and keeps the echoed entry.
recordDiscardNoPop(c) ==
  IF c.undoRedoCounter = 0 /\ c.isLastRedoAction = TRUE
    THEN [c EXCEPT !.isLastRedoAction = FALSE]
    ELSE c

\* recordDiscard that pops the entry and leaves the index where it was.
recordDiscardNoDecrement(c) ==
  IF c.undoRedoCounter = 0 /\ c.isLastRedoAction = TRUE
    THEN [c EXCEPT !.isLastRedoAction = FALSE,
                   !.formStateHistory = pop(@)]
    ELSE c

\* recordDiscard that leaves the flag set.
recordDiscardKeepFlag(c) ==
  IF c.undoRedoCounter = 0 /\ c.isLastRedoAction = TRUE
    THEN [c EXCEPT !.formStateHistory = pop(@),
                   !.currentHistoryIndex = @ - 1]
    ELSE c

\* Second if of onInputChange: drop the entry a redo-to-latest echoed.
recordDiscard(c) ==
  IF c.undoRedoCounter = 0 /\ c.isLastRedoAction = TRUE
    THEN [c EXCEPT !.isLastRedoAction = FALSE,
                   !.formStateHistory = pop(@),
                   !.currentHistoryIndex = @ - 1]
    ELSE c

\* onInputChange(): currentState is this.form.getRawValue().
onInputChange(c) ==
  recordDiscard(recordPush([c EXCEPT !.calls = @ + 1]))

\* valueChanges with two subscriptions on the FormGroup.
valueChangesTwice(c) ==
  IF c.subscribed THEN onInputChange(onInputChange(c)) ELSE c

\* The valueChanges subscription of ngOnInit: a value change of this.form
\* runs onInputChange when this.form is the FormGroup subscribed to.
valueChanges(c) ==
  IF c.subscribed THEN onInputChange(c) ELSE c

\* this.form.setValue(v): throws on undefined, leaving everything as it is;
\* otherwise sets the value and emits valueChanges once.
setValue(c, v) ==
  IF v = Undefined
    THEN c
    ELSE valueChanges([c EXCEPT !.form = v])

\* What one call applied: kind is "snapshot" (a History entry was applied),
\* "baseline" (the form was re-initialised), "undefined" (the index read was
\* outside the array and setValue threw) or "edit"; read is the index read;
\* echo is the number of onInputChange calls made; call is the component as
\* onInputChange found it; after is the component when the call returned.
applyEntry(c, i) ==
  LET v == At(c.formStateHistory, i)
  IN  [kind |-> IF v = Undefined THEN "undefined" ELSE "snapshot",
       read |-> i,
       val |-> v,
       echo |-> setValue(c, v).calls - c.calls,
       call |-> IF v = Undefined THEN c ELSE [c EXCEPT !.form = v],
       after |-> setValue(c, v)]

applyBaseline(c) ==
  [kind |-> "baseline", read |-> -1, val |-> Baseline, echo |-> 0,
   call |-> c, after |-> initializeForm(c)]

\* undoInRange with the bound check left out.
undoInRangeAlways(c) ==
  TRUE

\* undoInRange comparing against the length of History instead of the index.
undoInRangeByLength(c) ==
  c.undoRedoCounter <= Len(c.formStateHistory) + 1

\* undo(), line 116: is there an earlier entry to go back to?
undoInRange(c) ==
  c.undoRedoCounter <= c.currentHistoryIndex

\* undoIndex one entry too late.
undoIndexOffByOne(c) ==
  c.currentHistoryIndex - c.undoRedoCounter + 1

\* undo(), line 117: the index applied.
undoIndex(c) ==
  c.currentHistoryIndex - c.undoRedoCounter

\* undo() as a function of the component.
undoCall(c) ==
  LET c1 == [c EXCEPT !.undoRedoCounter = @ + 1]
  IN  IF undoInRange(c1)
        THEN applyEntry(c1, undoIndex(c1))
        ELSE applyBaseline(c1)

\* redo(), line 129: still inside the undone range?
redoInRange(c) ==
  c.undoRedoCounter > 0

\* redoIndex one entry too late.
redoIndexOffByOne(c) ==
  c.currentHistoryIndex - c.undoRedoCounter + 1

\* redo(), line 130: the index applied inside the undone range.
redoIndex(c) ==
  c.currentHistoryIndex - c.undoRedoCounter

\* redo(), line 133: the index applied at the latest state.
redoLatestIndex(c) ==
  c.currentHistoryIndex

\* redo() as a function of the component.
redoCall(c) ==
  LET c1 == [c EXCEPT !.undoRedoCounter = @ - 1]
  IN  IF redoInRange(c1)
        THEN applyEntry(c1, redoIndex(c1))
        ELSE applyEntry([c1 EXCEPT !.isLastRedoAction = TRUE],
                        redoLatestIndex(c1))

\* A user's change of a control to the form value v.
editCall(c, v) ==
  LET c1 == [c EXCEPT !.form = v]
  IN  [kind |-> "edit", read |-> -1, val |-> v,
       echo |-> valueChanges(c1).calls - c1.calls,
       call |-> c1, after |-> valueChanges(c1)]

\* Take the result r of the call op: assign the component, extend the log.
Take(op, r) ==
  /\ formStateHistory' = r.after.formStateHistory
  /\ currentHistoryIndex' = r.after.currentHistoryIndex
  /\ undoRedoCounter' = r.after.undoRedoCounter
  /\ isLastRedoAction' = r.after.isLastRedoAction
  /\ form' = r.after.form
  /\ subscribed' = r.after.subscribed
  /\ calls' = r.after.calls
  /\ log' = Append(log, [op |-> op, kind |-> r.kind, read |-> r.read,
                         val |-> r.val, echo |-> r.echo, before |-> this,
                         call |-> r.call, after |-> r.after])

\* ngOnInit(): the state after construction and initialisation.
Init ==
  /\ formStateHistory = <<>>
  /\ currentHistoryIndex = -1
  /\ undoRedoCounter = 0
  /\ isLastRedoAction = FALSE
  /\ form = Baseline
  /\ subscribed = TRUE
  /\ calls = 0
  /\ log = <<>>

\* The user changes a control: this.form takes a new value and emits
\* valueChanges.
UserEdit ==
  /\ Len(log) < MaxOps
  /\ \E v \in Values :
       /\ v # form
       /\ Take("edit", editCall(this, v))

\* The user presses Undo.
undo ==
  /\ Len(log) < MaxOps
  /\ Take("undo", undoCall(this))

\* The user presses Redo.
redo ==
  /\ Len(log) < MaxOps
  /\ Take("redo", redoCall(this))

Next ==
  \/ UserEdit
  \/ undo
  \/ redo

Spec == Init /\ [][Next]_vars

\* ---- the calls made so far ----------------------------------------------

\* The last call made.
Last == log[Len(log)]

\* The log is k user edits, then j undo() calls, then m redo() calls.
Shape(k, j, m) ==
  /\ Len(log) = k + j + m
  /\ \A n \in 1..k : log[n].op = "edit"
  /\ \A n \in (k + 1)..(k + j) : log[n].op = "undo"
  /\ \A n \in (k + j + 1)..(k + j + m) : log[n].op = "redo"

\* Call n applied the snapshot recorded by edit e (edits numbered from 1).
ReturnsEdit(n, e) ==
  /\ e >= 1
  /\ log[n].kind = "snapshot"
  /\ log[n].read = e - 1
  /\ log[n].val = log[e].val

\* ---- C1 ------------------------------------------------------------------
\* C1 (P5, idempotent redo-to-latest): after k >= 1 edits, one undo() and two
\* redo() calls, both redo() calls return the latest edit's snapshot and
\* History still has exactly k entries.
C1_RedoTwiceNoDuplicate ==
  \A k \in 1..MaxOps :
    Shape(k, 1, 2) =>
      /\ ReturnsEdit(k + 2, k)
      /\ log[k + 3].kind = "snapshot" /\ log[k + 3].val = log[k].val
      /\ Len(formStateHistory) = k

\* ---- C2 ------------------------------------------------------------------
\* C2 (P1, as stated): every onInputChange call made with undoRedoCounter = 0
\* appends the current form value to History and advances the index by one.
C2_AppendAtOffsetZero ==
  (Len(log) > 0 /\ Last.echo = 1 /\ Last.call.undoRedoCounter = 0) =>
    /\ Last.after.formStateHistory =
         Append(Last.call.formStateHistory, Last.call.form)
    /\ Last.after.currentHistoryIndex = Last.call.currentHistoryIndex + 1

\* C2 (P1, amended): every onInputChange call made with undoRedoCounter = 0
\* and isLastRedoAction false appends the current form value to History and
\* advances the index by one.
C2_AppendAtOffsetZeroFlagClear ==
  (/\ Len(log) > 0
   /\ Last.echo = 1
   /\ Last.call.undoRedoCounter = 0
   /\ Last.call.isLastRedoAction = FALSE) =>
    /\ Last.after.formStateHistory =
         Append(Last.call.formStateHistory, Last.call.form)
    /\ Last.after.currentHistoryIndex = Last.call.currentHistoryIndex + 1

\* An edit recorded at offset 0 onto a History that already has entries.
C2_Witness ==
  /\ Len(log) > 0
  /\ Last.op = "edit"
  /\ Last.echo = 1
  /\ Last.call.undoRedoCounter = 0
  /\ Last.call.isLastRedoAction = FALSE
  /\ Len(Last.call.formStateHistory) >= 2

\* ---- C3 ------------------------------------------------------------------
\* C3 (P2, as stated): after k >= 1 edits and j undo() calls, 1 <= j <= k,
\* the i-th undo() returns the snapshot recorded at edit k - i, for every i
\* in 1..j.
C3_UndoWalksBackward ==
  \A k \in 1..MaxOps : \A j \in 1..k :
    Shape(k, j, 0) => \A i \in 1..j : ReturnsEdit(k + i, k - i)

\* C3 (P2, amended): after k >= 1 edits and j undo() calls, 1 <= j <= k, the
\* i-th undo() returns the snapshot recorded at edit k - i for every i < k,
\* and the k-th undo() returns the baseline record.
C3_UndoWalksBackwardToBaseline ==
  \A k \in 1..MaxOps : \A j \in 1..k :
    Shape(k, j, 0) =>
      \A i \in 1..j :
        IF i < k
          THEN ReturnsEdit(k + i, k - i)
          ELSE log[k + i].kind = "baseline" /\ log[k + i].val = Baseline

\* Three edits undone three times.
C3_Witness ==
  Shape(3, 3, 0)

\* ---- C4 ------------------------------------------------------------------
\* C4 (P3, undo exhaustion): after k >= 1 edits and k + 1 undo() calls, the
\* last undo() re-initialises the form: it applies the baseline record, reads
\* no History entry and does not fail.
C4_UndoExhaustionBaseline ==
  \A k \in 1..MaxOps :
    Shape(k, k + 1, 0) =>
      /\ Last.kind = "baseline"
      /\ Last.val = Baseline
      /\ form = Baseline

\* Two edits undone three times.
C4_Witness ==
  Shape(2, 3, 0)

\* ---- C5 ------------------------------------------------------------------
\* C5 (P4, undo/redo round trip): after k >= 1 edits, one undo() and one
\* redo(), the redo() returns the latest edit's snapshot and History is what
\* it was before the undo().
C5_UndoRedoRoundTrip ==
  \A k \in 1..MaxOps :
    Shape(k, 1, 1) =>
      /\ ReturnsEdit(k + 2, k)
      /\ form = log[k].val
      /\ formStateHistory = log[k].after.formStateHistory
      /\ Len(formStateHistory) = k

\* The round trip after three edits, with the echo of each call absorbed.
C5_Witness ==
  /\ Shape(3, 1, 1)
  /\ log[4].echo = 1
  /\ log[5].echo = 1

\* ---- C6 ------------------------------------------------------------------
\* C6 (multi-step round trip): after k >= 1 edits, j undo() calls and j
\* redo() calls, 1 <= j <= k, the m-th redo() for m < j returns what the
\* (j-m)-th undo() returned, the j-th redo() returns the latest edit's
\* snapshot, and History is unchanged with undoRedoCounter = 0.
C6_MultiStepRoundTrip ==
  \A k \in 1..MaxOps : \A j \in 1..k :
    Shape(k, j, j) =>
      /\ \A m \in 1..(j - 1) :
           /\ log[k + j + m].kind = "snapshot"
           /\ log[k + j + m].kind = log[k + j - m].kind
           /\ log[k + j + m].read = log[k + j - m].read
           /\ log[k + j + m].val = log[k + j - m].val
      /\ ReturnsEdit(k + 2 * j, k)
      /\ formStateHistory = log[k].after.formStateHistory
      /\ Len(formStateHistory) = k
      /\ undoRedoCounter = 0

\* Three edits, two undo() calls, two redo() calls.
C6_Witness ==
  Shape(3, 2, 2)

\* ---- C7 ------------------------------------------------------------------
\* C7 (no out-of-bounds access): every History index undo() or redo() reads
\* lies in 0..length-1, so the call applies a recorded snapshot or the
\* baseline and never an undefined value.
C7_NoOutOfBounds ==
  (Len(log) > 0 /\ Last.op \in {"undo", "redo"}) =>
    /\ Last.kind \in {"snapshot", "baseline"}
    /\ Last.kind = "snapshot" =>
         (Last.read >= 0 /\ Last.read < Len(Last.before.formStateHistory))

\* ---- C8 ------------------------------------------------------------------
\* C8 (undo/redo do not change History): an undo() or redo() call, together
\* with the onInputChange it triggers, leaves History and the index as they
\* were.
C8_UndoRedoKeepHistory ==
  (Len(log) > 0 /\ Last.op \in {"undo", "redo"}) =>
    /\ Last.after.formStateHistory = Last.before.formStateHistory
    /\ Last.after.currentHistoryIndex = Last.before.currentHistoryIndex

\* ---- C9 ------------------------------------------------------------------
\* C9 (offset invariant): after one or more edits followed by any number of
\* undo() calls, 0 <= undoRedoCounter <= currentHistoryIndex + 1.
C9_OffsetInvariant ==
  \A k \in 1..MaxOps : \A j \in 1..MaxOps :
    Shape(k, j, 0) =>
      /\ 0 <= undoRedoCounter
      /\ undoRedoCounter <= currentHistoryIndex + 1

\* ---- C10 -----------------------------------------------------------------
\* C10 (cursor invariant): in every reachable state
\* -1 <= currentHistoryIndex < formStateHistory.length.
C10_CursorInvariant ==
  /\ -1 <= currentHistoryIndex
  /\ currentHistoryIndex < Len(formStateHistory)

\* A redo() to the latest state whose echo was pushed and then discarded.
C10_Witness ==
  /\ Len(log) > 0
  /\ Last.op = "redo"
  /\ Last.echo = 1
  /\ Last.call.undoRedoCounter = 0
  /\ Last.call.isLastRedoAction = TRUE
  /\ Len(formStateHistory) >= 2

\* ---- C11 -----------------------------------------------------------------
\* C11 (every value change reaches the Tracker): every value change of the
\* form, a user edit or a setValue made by undo()/redo(), also after an
\* undo() that re-initialised the form, runs onInputChange exactly once.
C11_EveryChangeRecorded ==
  (Len(log) > 0 /\ Last.kind \in {"edit", "snapshot"}) => Last.echo = 1

\* ---- C12 -----------------------------------------------------------------
\* C12 (new edit against a pending redo branch): a user edit notified while
\* undoRedoCounter > 0 is not lost: History gets the edit appended, or the
\* entries after the displayed position are removed.
C12_EditWhileUndoneKept ==
  (/\ Len(log) > 0
   /\ Last.op = "edit"
   /\ Last.echo = 1
   /\ Last.call.undoRedoCounter > 0) =>
    \/ Last.after.formStateHistory =
         Append(Last.before.formStateHistory, Last.val)
    \/ Len(Last.after.formStateHistory) < Len(Last.before.formStateHistory)

C14_DiscardNoNetEffect ==
  (/\ Len(log) > 0
   /\ Last.echo >= 1
   /\ Last.call.undoRedoCounter = 0
   /\ Last.call.isLastRedoAction = TRUE) =>
    /\ Last.after.isLastRedoAction = FALSE
    /\ Last.after.formStateHistory = Last.call.formStateHistory
    /\ Last.after.currentHistoryIndex = Last.call.currentHistoryIndex
    /\ recordPush(Last.call).formStateHistory =
         Append(Last.call.formStateHistory, Last.call.form)
    /\ Len(recordPush(Last.call).formStateHistory) >= 1

\* The discard reached through undo(): the counter comes back from -1 to 0
\* with the flag still set.
C14_Witness ==
  /\ Len(log) > 0
  /\ Last.op = "undo"
  /\ Last.echo = 1
  /\ Last.call.undoRedoCounter = 0
  /\ Last.call.isLastRedoAction = TRUE

\* ---- C15 -----------------------------------------------------------------
\* C15 (the discard flag is transient): whenever no call is in progress
\* isLastRedoAction is false.
C15_FlagClearBetweenCalls ==
  isLastRedoAction = FALSE

\* ---- C16 -----------------------------------------------------------------
\* C16 (bounded re-entrancy): an undo() or redo() call runs onInputChange at
\* most once before it returns, and that onInputChange changes neither the
\* form value (so it emits no further notification) nor the counter (so it
\* makes no undo or redo of its own).
C16_AtMostOneNestedCall ==
  (Len(log) > 0 /\ Last.op \in {"undo", "redo"}) =>
    /\ Last.after.calls - Last.before.calls \in {0, 1}
    /\ Last.echo = Last.after.calls - Last.before.calls
    /\ Last.kind # "baseline" => Last.after.form = Last.call.form
    /\ Last.after.undoRedoCounter = Last.call.undoRedoCounter

\* An undo() whose setValue was echoed to onInputChange.
C16_Witness ==
  /\ Len(log) > 0
  /\ Last.op = "undo"
  /\ Last.kind = "snapshot"
  /\ Last.echo = 1
  /\ Last.call.undoRedoCounter = 1

\* ---- C17 -----------------------------------------------------------------
\* C17 (undo on empty History): undo() called with History empty, the index
\* at -1 and the counter at 0 applies the baseline record, reads no History
\* entry and leaves History empty and the index at -1.
C17_UndoOnEmptyHistory ==
  (/\ Len(log) > 0
   /\ Last.op = "undo"
   /\ Last.before.formStateHistory = <<>>
   /\ Last.before.currentHistoryIndex = -1
   /\ Last.before.undoRedoCounter = 0) =>
    /\ Last.kind = "baseline"
    /\ Last.read = -1
    /\ form = Baseline
    /\ formStateHistory = <<>>
    /\ currentHistoryIndex = -1

\* undo() as the first call made on the component.
C17_Witness ==
  Shape(0, 1, 0)

\* ---- C18 -----------------------------------------------------------------
\* h2 is h1, h1 with one entry appended, or h1 with its last entry removed.
OneStep(h1, h2) ==
  \/ h2 = h1
  \/ Len(h2) = Len(h1) + 1 /\ SubSeq(h2, 1, Len(h1)) = h1
  \/ Len(h1) >= 1 /\ h2 = SubSeq(h1, 1, Len(h1) - 1)

\* C18 (History is append-only except for removal of its last entry): every
\* step of every call (the push, then the pop, of the onInputChange it runs)
\* takes History to itself, to itself with one entry appended or to itself
\* with the last entry removed, and so does the call as a whole.
C18_AppendOrRemoveLast ==
  Len(log) > 0 =>
    /\ Last.call.formStateHistory = Last.before.formStateHistory
    /\ IF Last.echo >= 1
         THEN /\ OneStep(Last.call.formStateHistory,
                         recordPush(Last.call).formStateHistory)
              /\ OneStep(recordPush(Last.call).formStateHistory,
                         Last.after.formStateHistory)
         ELSE Last.after.formStateHistory = Last.before.formStateHistory
    /\ OneStep(Last.before.formStateHistory, Last.after.formStateHistory)

\* Two edits, undo(), redo(): the redo's echo was pushed and removed again.
C18_Witness ==
  /\ Shape(2, 1, 1)
  /\ Last.echo = 1
  /\ Len(recordPush(Last.call).formStateHistory) = 3
  /\ Len(formStateHistory) = 2

\* ---- C19 -----------------------------------------------------------------
\* C19 (the index is that of the last entry): between calls
\* currentHistoryIndex = formStateHistory.length - 1.
C19_IndexIsLast ==
  currentHistoryIndex = Len(formStateHistory) - 1

\* A state after redo() calls past the latest entry, whose echoes were pushed
\* and kept.
C19_Witness ==
  /\ undoRedoCounter < 0
  /\ Len(formStateHistory) >= 3
  /\ Len(log) > 0
  /\ Last.op = "redo"
  /\ Last.echo = 1

====
